---- MODULE Spec2Model ----
(***************************************************************************)
(* Department and Employee Management System.                              *)
(*                                                                         *)
(* The model covers the token service and the two authorization gates of   *)
(* Middleware/jwt (src/unnamed/part_000), the login and admin routes       *)
(* (src/unnamed/part_001), the department task routes with the task        *)
(* assignment selector (src/server.js, second file of the listing) and the *)
(* three mongoose collections they act on.                                 *)
(*                                                                         *)
(* JavaScript values are modelled by strings where the code only tests     *)
(* them for truthiness ("true", "false", "undefined"), ObjectIds by        *)
(* records [kind, id]; the clock is Date.now() in milliseconds.            *)
(***************************************************************************)
EXTENDS Integers, Sequences, FiniteSets, TLC

VARIABLES
    departments,  \* Department collection: set of documents
    employees,    \* Employee collection: sequence in natural (insertion) order
    tasks,        \* Task collection: set of documents
    nextId,       \* source of fresh ObjectIds
    now,          \* Date.now(), milliseconds
    ticks,        \* number of clock steps taken (bounds the run)
    tokens,       \* tokens handed out by generateToken, held by clients
    req,          \* the last request: route, header, req.user, whether next() ran
    res,          \* the response to the last request
    out,          \* result of the last direct call of a pure function
    calls         \* POST task handlers in flight: position and local variables

vars == <<departments, employees, tasks, nextId, now, ticks, tokens, req, res, out, calls>>
store == <<departments, employees, tasks>>

----------------------------------------------------------------------------
(* Bounds of the model *)

MaxTicks == 3
MaxTokens == 1

(* Program constants *)

ExpiresIn == 3600       \* jwt.sign(..., { expiresIn: '1h' }), in seconds
MsPerSecond == 1000     \* jsonwebtoken works on Math.floor(Date.now() / 1000)

Secret == "JWT_SECRET"  \* process.env.JWT_SECRET
OtherKey == "other"     \* any key that is not the configured secret

(* Clock steps, chosen so that a token meets 3599 s, 3600 s and more. *)
ClockSteps == {999, 3599001}

----------------------------------------------------------------------------
(* JavaScript values *)

Undefined == "undefined"
Truthy(v) == v \notin {"undefined", "false", "null", ""}

ObjectId(n) == [kind |-> "ObjectId", id |-> n]
HexString(n) == [kind |-> "string", id |-> n]

\* ObjectId.prototype.toJSON gives the hex string; a string stays a string.
ToJSON(v) == IF v.kind = "ObjectId" THEN HexString(v.id) ELSE v

Sec(ms) == ms \div MsPerSecond

----------------------------------------------------------------------------
(* Token service: jsonwebtoken as used by Middleware/jwt *)

\* Variant of JwtSign that does not carry the isAdmin claim over.
JwtSign_NoAdminClaim(payload, key, t) ==
    [kind |-> "jwt", key |-> key,
     payload |-> [userId  |-> ToJSON(payload.userId),
                  email   |-> payload.email,
                  isAdmin |-> "false",
                  iat     |-> Sec(t),
                  exp     |-> Sec(t) + ExpiresIn],
     issuedAt |-> t, claims |-> payload]

\* jwt.sign(payload, key, {expiresIn}): the payload goes through JSON (a key
\* whose value is undefined is dropped, so it reads back as undefined), iat is
\* the clock in whole seconds and exp = iat + expiresIn.
JwtSign(payload, key, t) ==
    [kind |-> "jwt", key |-> key,
     payload |-> [userId  |-> ToJSON(payload.userId),
                  email   |-> payload.email,
                  isAdmin |-> payload.isAdmin,
                  iat     |-> Sec(t),
                  exp     |-> Sec(t) + ExpiresIn],
     issuedAt |-> t, claims |-> payload]
\* (issuedAt and claims are not part of the token: they record the call that
\* made it, for the properties that speak of it.)

\* Variant of JwtVerify that still accepts the token at clockTimestamp = exp.
JwtVerify_InclusiveExp(token, key, t) ==
    IF token.kind # "jwt" THEN [ok |-> FALSE, error |-> "jwt malformed"]
    ELSE IF token.key # key THEN [ok |-> FALSE, error |-> "invalid signature"]
    ELSE IF Sec(t) > token.payload.exp THEN [ok |-> FALSE, error |-> "jwt expired"]
    ELSE [ok |-> TRUE, error |-> "", decoded |-> token.payload]

\* jwt.verify(token, key): throws on a malformed token, on a signature made
\* with another key, and when clockTimestamp >= exp.
JwtVerify(token, key, t) ==
    IF token.kind # "jwt" THEN [ok |-> FALSE, error |-> "jwt malformed"]
    ELSE IF token.key # key THEN [ok |-> FALSE, error |-> "invalid signature"]
    ELSE IF Sec(t) >= token.payload.exp THEN [ok |-> FALSE, error |-> "jwt expired"]
    ELSE [ok |-> TRUE, error |-> "", decoded |-> token.payload]

generateToken(payload, t) == JwtSign(payload, Secret, t)

----------------------------------------------------------------------------
(* Authorization header: the string is modelled by its segments between     *)
(* single spaces, so that split(' ') is the sequence itself.                *)

Word(w) == [kind |-> "word", key |-> w]
EmptySeg == [kind |-> "empty", key |-> ""]     \* the empty string
Garbage == [kind |-> "garbage", key |-> ""]    \* a string that is no JWT
UndefSeg == [kind |-> "undefined", key |-> ""]

NoHeader == [present |-> FALSE, parts |-> << >>]
Header(parts) == [present |-> TRUE, parts |-> parts]
Bearer(tok) == Header(<<Word("Bearer"), tok>>)

\* !authHeader: undefined or the empty string
HeaderFalsy(h) == ~h.present \/ h.parts = <<EmptySeg>>
\* authHeader.split(' ')[1]
SplitSecond(h) == IF Len(h.parts) >= 2 THEN h.parts[2] ELSE UndefSeg
\* !token
TokenFalsy(tok) == tok.kind \in {"undefined", "empty"}

NoUser == [none |-> TRUE]

Reject(status, message) ==
    [status |-> status, message |-> message, next |-> FALSE, user |-> NoUser]
Proceed(decoded) ==
    [status |-> 0, message |-> "", next |-> TRUE, user |-> decoded]

\* Variant of jwtAuthMiddleware that lets the request through when
\* verification throws.
jwtAuthMiddleware_FailOpen(h, t) ==
    IF HeaderFalsy(h) THEN Reject(401, "Access denied. No token provided.")
    ELSE LET token == SplitSecond(h) IN
         IF TokenFalsy(token) THEN Reject(401, "Access denied. Invalid token format.")
         ELSE LET v == JwtVerify(token, Secret, t) IN
              IF v.ok THEN Proceed(v.decoded)
              ELSE Proceed(NoUser)

\* Variant of jwtAuthMiddleware that also looks the user up in the Employee
\* collection and refuses a token whose employee is gone.
jwtAuthMiddleware_ChecksEmployee(h, t) ==
    IF HeaderFalsy(h) THEN Reject(401, "Access denied. No token provided.")
    ELSE LET token == SplitSecond(h) IN
         IF TokenFalsy(token) THEN Reject(401, "Access denied. Invalid token format.")
         ELSE LET v == JwtVerify(token, Secret, t) IN
              IF v.ok /\ \E i \in 1..Len(employees) :
                            employees[i]._id = v.decoded.userId.id
              THEN Proceed(v.decoded)
              ELSE Reject(401, "Invalid token.")

jwtAuthMiddleware(h, t) ==
    IF HeaderFalsy(h) THEN Reject(401, "Access denied. No token provided.")
    ELSE LET token == SplitSecond(h) IN
         IF TokenFalsy(token) THEN Reject(401, "Access denied. Invalid token format.")
         ELSE LET v == JwtVerify(token, Secret, t) IN
              IF v.ok THEN Proceed(v.decoded)
              ELSE Reject(401, "Invalid token.")

\* Variant of adminAuthMiddleware that refuses only an explicit isAdmin: false.
adminAuthMiddleware_OnlyFalseRefused(h, t) ==
    LET token == IF h.present THEN SplitSecond(h) ELSE UndefSeg IN
    IF TokenFalsy(token) THEN Reject(401, "Access denied. No token provided.")
    ELSE LET v == JwtVerify(token, Secret, t) IN
         IF v.ok THEN
            IF v.decoded.isAdmin # "false" THEN Proceed(v.decoded)
            ELSE Reject(403, "Access denied. Admins only.")
         ELSE Reject(400, "Invalid token")

adminAuthMiddleware(h, t) ==
    LET token == IF h.present THEN SplitSecond(h) ELSE UndefSeg IN
    IF TokenFalsy(token) THEN Reject(401, "Access denied. No token provided.")
    ELSE LET v == JwtVerify(token, Secret, t) IN
         IF v.ok THEN
            IF Truthy(v.decoded.isAdmin) THEN Proceed(v.decoded)
            ELSE Reject(403, "Access denied. Admins only.")
         ELSE Reject(400, "Invalid token")

\* The same token signed with a key that is not the secret.
Forged(tok) == [tok EXCEPT !.key = OtherKey]

\* The headers a client may send, given the tokens handed out so far.
Headers(toks) ==
    {NoHeader, Header(<<EmptySeg>>), Header(<<Word("Bearer")>>),
     Header(<<Word("Bearer"), EmptySeg, Garbage>>), Bearer(Garbage)}
    \cup {Bearer(tok) : tok \in toks}
    \cup {Bearer(Forged(tok)) : tok \in toks}
    \cup {Header(<<tok>>) : tok \in toks}

----------------------------------------------------------------------------
(* Collections and the task assignment selector (routes/departmentRoute)    *)

Null == [null |-> TRUE]
Infinity == -1          \* stands for the JavaScript Infinity: above every count

\* x < m where m may be Infinity
Less(x, m) == m = Infinity \/ x < m

\* Department.findOne({ name })
FindDepartment(name) ==
    IF \E d \in departments : d.name = name
    THEN CHOOSE d \in departments : d.name = name
    ELSE Null

\* Employee.find({ departmentId }), in natural order
EmployeesOf(departmentId, emps) ==
    SelectSeq(emps, LAMBDA e : e.departmentId = departmentId)

\* Variant of TotalTasks that leaves completed tasks out of the count.
TotalTasks_OpenOnly(e, tsks) ==
    Cardinality({t \in tsks : t.assignedTo = e._id /\ t.status # "completed"})

\* Task.countDocuments({ assignedTo })
TotalTasks(e, tsks) == Cardinality({t \in tsks : t.assignedTo = e._id})
\* Task.countDocuments({ assignedTo, status: { $in: ['pending', 'in-progress'] } })
PendingTasks(e, tsks) ==
    Cardinality({t \in tsks : /\ t.assignedTo = e._id
                              /\ t.status \in {"pending", "in-progress"}})

\* Variant of Better that compares the pending count before the total.
Better_PendingFirst(totalTasks, pendingTasks, st) ==
    \/ Less(pendingTasks, st.minPendingTasks)
    \/ (pendingTasks = st.minPendingTasks /\ Less(totalTasks, st.minTaskCount))

\* Variant of Better that lets a candidate with equal counters win.
Better_OrEqual(totalTasks, pendingTasks, st) ==
    \/ Less(totalTasks, st.minTaskCount)
    \/ (totalTasks = st.minTaskCount
        /\ (Less(pendingTasks, st.minPendingTasks) \/ pendingTasks = st.minPendingTasks))

\* Variant of Better under which only the first employee of the loop is
\* ever taken.
Better_KeepFirst(totalTasks, pendingTasks, st) ==
    st.minTaskCount = Infinity /\ totalTasks >= 0 /\ pendingTasks >= 0

\* The test of the loop of selectEmployee
Better(totalTasks, pendingTasks, st) ==
    \/ Less(totalTasks, st.minTaskCount)
    \/ (totalTasks = st.minTaskCount /\ Less(pendingTasks, st.minPendingTasks))

RECURSIVE SelectLoop(_, _, _, _)
SelectLoop(found, i, st, tsks) ==
    IF i > Len(found) THEN st
    ELSE LET employee == found[i]
             totalTasks == TotalTasks(employee, tsks)
             pendingTasks == PendingTasks(employee, tsks)
         IN  SelectLoop(found, i + 1,
                        IF Better(totalTasks, pendingTasks, st)
                        THEN [selectedEmployee |-> employee,
                              minTaskCount |-> totalTasks,
                              minPendingTasks |-> pendingTasks]
                        ELSE st,
                        tsks)

\* Variant of selectEmployee whose query forgets the department filter.
selectEmployee_Unfiltered(departmentId, emps, tsks) ==
    LET found == emps IN
    IF Len(found) = 0 THEN Null
    ELSE LET st == SelectLoop(found, 1,
                              [selectedEmployee |-> Null,
                               minTaskCount |-> Infinity,
                               minPendingTasks |-> Infinity], tsks)
         IN  IF st.selectedEmployee = Null THEN found[1] ELSE st.selectedEmployee

selectEmployee(departmentId, emps, tsks) ==
    LET found == EmployeesOf(departmentId, emps) IN
    IF Len(found) = 0 THEN Null
    ELSE LET st == SelectLoop(found, 1,
                              [selectedEmployee |-> Null,
                               minTaskCount |-> Infinity,
                               minPendingTasks |-> Infinity], tsks)
         IN  IF st.selectedEmployee = Null THEN found[1] ELSE st.selectedEmployee

----------------------------------------------------------------------------
(* Initial values shared by the specifications *)

NoReq == [route |-> "none", header |-> NoHeader, at |-> 0, user |-> NoUser, next |-> FALSE]
NoRes == [status |-> 0, message |-> ""]
NoOut == [fn |-> "none"]
NoCalls == << >>

EmptyStore ==
    /\ departments = {}
    /\ employees = << >>
    /\ tasks = {}
    /\ nextId = 1

----------------------------------------------------------------------------
(* SpecGate: the token service and the two gates applied to requests       *)

Payloads ==
    [userId : {ObjectId(1), HexString(1)}, email : {"a@x"},
     isAdmin : {"true", "false", Undefined}]

Tick(d) ==
    /\ ticks < MaxTicks
    /\ now' = now + d
    /\ ticks' = ticks + 1
    /\ UNCHANGED <<store, nextId, tokens, req, res, out, calls>>

GenerateToken(payload) ==
    /\ Cardinality(tokens) < MaxTokens
    /\ tokens' = tokens \cup {generateToken(payload, now)}
    /\ UNCHANGED <<store, nextId, now, ticks, req, res, out, calls>>

\* One request sent to a route behind each gate.
ApplyGates(h) ==
    /\ req' = [NoReq EXCEPT !.route = "gate", !.header = h]
    /\ out' = [fn |-> "gates", at |-> now,
               jwt |-> jwtAuthMiddleware(h, now),
               admin |-> adminAuthMiddleware(h, now)]
    /\ UNCHANGED <<store, nextId, now, ticks, tokens, res, calls>>

InitGate ==
    /\ EmptyStore
    /\ now = 0 /\ ticks = 0 /\ tokens = {}
    /\ req = NoReq /\ res = NoRes /\ out = NoOut /\ calls = NoCalls

NextGate ==
    \/ \E d \in ClockSteps : Tick(d)
    \/ \E p \in Payloads : GenerateToken(p)
    \/ \E h \in Headers(tokens) : ApplyGates(h)

SpecGate == InitGate /\ [][NextGate]_vars

----------------------------------------------------------------------------
(* Properties of the gates (SpecGate) *)

GatesApplied == out.fn = "gates"
Presented == SplitSecond(req.header)
\* The request carries a token that generateToken handed out.
PresentsIssued == GatesApplied /\ Len(req.header.parts) = 2 /\ Presented \in tokens
\* Milliseconds between the token's issuance and the request.
Elapsed == out.at - Presented.issuedAt
HourMs == ExpiresIn * MsPerSecond

FailureKind(o) ==
    CASE o.message = "Access denied. No token provided." -> "NoToken"
      [] o.message = "Access denied. Invalid token format." -> "MalformedHeader"
      [] o.message \in {"Invalid token.", "Invalid token"} -> "InvalidToken"
      [] o.message = "Access denied. Admins only." -> "AdminRequired"
      [] OTHER -> "none"

\* C5: a validly signed, unexpired token whose isAdmin claim is false or
\* absent is rejected by adminAuthMiddleware with 403 without calling the
\* handler, and accepted by jwtAuthMiddleware, which calls the handler.
C5_NonAdminForbidden ==
    (/\ GatesApplied
     /\ ~TokenFalsy(Presented)
     /\ Presented.kind = "jwt"
     /\ Presented.key = Secret
     /\ Sec(out.at) < Presented.payload.exp
     /\ Presented.payload.isAdmin \in {"false", Undefined})
    => /\ out.admin.status = 403
       /\ ~out.admin.next
       /\ out.admin.user = NoUser
       /\ out.jwt.next
       /\ out.jwt.user = Presented.payload

C5_Witness ==
    /\ PresentsIssued
    /\ Sec(out.at) < Presented.payload.exp
    /\ Presented.payload.isAdmin = Undefined
    /\ out.admin.status = 403
    /\ out.jwt.next

\* C6: whenever jwtAuthMiddleware rejects a request as unauthenticated (no
\* header, no second segment, token failing verification), adminAuthMiddleware
\* rejects it with the same status and the same failure kind.
C6_SameUnauthenticated ==
    (GatesApplied /\ ~out.jwt.next)
    => /\ ~out.admin.next
       /\ out.admin.status = out.jwt.status
       /\ FailureKind(out.admin) = FailureKind(out.jwt)

\* C8 as stated: more than one hour after issuance verification fails and
\* both gates reject; within one hour a correctly signed token passes.
C8_ExactlyOneHour ==
    PresentsIssued
    => /\ Elapsed > HourMs => (~out.jwt.next /\ ~out.admin.next)
       /\ Elapsed <= HourMs => out.jwt.next

\* C8 amended: the lifetime is counted in whole seconds of the clock. The
\* token is rejected by both gates from the moment the clock's whole second
\* reaches the issuance's whole second plus 3600 (so at one hour or more, and
\* up to just under a second earlier), and passes verification before that
\* (so up to 3599 s after issuance).
C8_ExpiresAtWholeSecond ==
    PresentsIssued
    => /\ Sec(out.at) >= Sec(Presented.issuedAt) + ExpiresIn
            => (/\ ~out.jwt.next /\ out.jwt.status = 401
                /\ ~out.admin.next /\ out.admin.status = 400)
       /\ Sec(out.at) < Sec(Presented.issuedAt) + ExpiresIn => out.jwt.next
       /\ Elapsed >= HourMs => ~out.jwt.next
       /\ Elapsed <= HourMs - MsPerSecond => out.jwt.next

C8_Witness ==
    /\ PresentsIssued
    /\ Elapsed < HourMs
    /\ Sec(out.at) = Sec(Presented.issuedAt) + ExpiresIn
    /\ ~out.jwt.next /\ ~out.admin.next

----------------------------------------------------------------------------
(* Routes. Every action is one request: the gate of the route, then the    *)
(* handler when the gate calls next().                                     *)

MaxDocs == 4            \* documents ever inserted (ObjectIds handed out)

DueDays == 7            \* DateTime.now().plus({ days: 7 })
MsPerDay == 86400000

DeptNames == {"Eng", "Ops"}
EmpNames == {"ann", "bob"}

\* bcrypt: the stored password is either a hash of a plaintext or, when it
\* was written without the pre('save') hook, the plaintext itself.
Hashed(p) == [hashed |-> TRUE, of |-> p]
Raw(p) == [hashed |-> FALSE, of |-> p]
\* bcrypt.compare(candidate, stored)
comparePassword(stored, candidate) == stored.hashed /\ stored.of = candidate

\* person.isAdmin and the like: a path the document does not have reads undefined
Get(doc, path) == IF path \in DOMAIN doc THEN doc[path] ELSE Undefined

\* Position of the first document of the Employee collection matching a field
FirstIndex(field, value) ==
    IF \E i \in 1..Len(employees) : employees[i][field] = value
    THEN CHOOSE i \in 1..Len(employees) :
            /\ employees[i][field] = value
            /\ \A j \in 1..(i - 1) : employees[j][field] # value
    ELSE 0

RemoveAt(seq, i) == [j \in 1..(Len(seq) - 1) |-> IF j < i THEN seq[j] ELSE seq[j + 1]]

Answer(route, h, g, status, message) ==
    /\ req' = [route |-> route, header |-> h, at |-> now, user |-> g.user, next |-> g.next]
    /\ res' = [status |-> status, message |-> message]
    /\ UNCHANGED calls

\* The gate answered: the handler does not run.
Denied(route, h, g) ==
    /\ Answer(route, h, g, g.status, g.message)
    /\ UNCHANGED <<store, nextId>>

\* The handler answers without writing.
Reply(route, h, g, status, message) ==
    /\ Answer(route, h, g, status, message)
    /\ UNCHANGED <<store, nextId>>

Quiet == out' = NoOut /\ UNCHANGED <<now, ticks, tokens>>

(* In each action h is the Authorization header; the remaining parameters  *)
(* are the sets the route parameters and the body are drawn from once the  *)
(* gate has let the request through.                                       *)

(* ---- admin routes: departments (Routes/admin) ---- *)

\* POST /admin/department
CreateDepartment(h, names) ==
    LET g == adminAuthMiddleware(h, now)
        route == "POST /admin/department"
    IN  /\ nextId <= MaxDocs
        /\ Quiet
        /\ IF ~g.next THEN Denied(route, h, g)
           ELSE \E name \in names :
                IF FindDepartment(name) # Null
                THEN Reply(route, h, g, 500, "Server error")   \* unique index on name
                ELSE /\ departments' = departments \cup {[_id |-> nextId, name |-> name]}
                     /\ nextId' = nextId + 1
                     /\ Answer(route, h, g, 201, "Successfully saved department")
                     /\ UNCHANGED <<employees, tasks>>

\* PUT /admin/department/:departmentName
UpdateDepartment(h, names, bodies) ==
    LET g == adminAuthMiddleware(h, now)
        route == "PUT /admin/department/:departmentName"
    IN  /\ Quiet
        /\ IF ~g.next THEN Denied(route, h, g)
           ELSE \E departmentName \in names, body \in bodies :
                LET department == FindDepartment(departmentName) IN
                IF department = Null
                THEN Reply(route, h, g, 404, "Department not found")
                ELSE IF ~Truthy(body.name) \/ body.name = departmentName
                THEN Reply(route, h, g, 200, "Department updated successfully")
                ELSE IF FindDepartment(body.name) # Null
                THEN Reply(route, h, g, 500, "Error updating department")
                ELSE /\ departments' = (departments \ {department})
                                       \cup {[department EXCEPT !.name = body.name]}
                     /\ Answer(route, h, g, 200, "Department updated successfully")
                     /\ UNCHANGED <<employees, tasks, nextId>>

\* DELETE /admin/department/:departmentName
DeleteDepartment(h, names) ==
    LET g == adminAuthMiddleware(h, now)
        route == "DELETE /admin/department/:departmentName"
    IN  /\ Quiet
        /\ IF ~g.next THEN Denied(route, h, g)
           ELSE \E departmentName \in names :
                LET department == FindDepartment(departmentName) IN
                IF department = Null
                THEN Reply(route, h, g, 404, "Department not found")
                ELSE /\ departments' = departments \ {department}
                     /\ Answer(route, h, g, 200, "Department deleted successfully")
                     /\ UNCHANGED <<employees, tasks, nextId>>

(* ---- admin routes: employees (Routes/admin) ---- *)

\* employeeSchema.pre('save'): a new document's password is hashed
PreSave(doc) == [doc EXCEPT !.password = Hashed(doc.password.of)]

\* POST /admin/employee
CreateEmployee(h, bodies) ==
    LET g == adminAuthMiddleware(h, now)
        route == "POST /admin/employee"
    IN  /\ nextId <= MaxDocs
        /\ Quiet
        /\ IF ~g.next THEN Denied(route, h, g)
           ELSE \E body \in bodies :
                LET department == FindDepartment(body.departmentName) IN
                IF department = Null
                THEN Reply(route, h, g, 404, "Department not found")
                ELSE IF FirstIndex("email", body.email) # 0
                THEN Reply(route, h, g, 500, "Server error")   \* unique index on email
                ELSE /\ employees' = Append(employees,
                            PreSave([_id |-> nextId, name |-> body.name,
                                     email |-> body.email,
                                     password |-> Raw(body.password),
                                     role |-> IF body.role = Undefined THEN "employee"
                                              ELSE body.role,
                                     departmentId |-> department._id]))
                     /\ nextId' = nextId + 1
                     /\ Answer(route, h, g, 201, "Employee created successfully")
                     /\ UNCHANGED <<departments, tasks>>

\* Employee.findOneAndUpdate({ name }, updateFields): the fields given are
\* written as they are; no save hook runs. (A departmentId of 0 stands for
\* an absent one.)
ApplyUpdate(doc, fields) ==
    [doc EXCEPT
       !.password = IF fields.password = Undefined THEN @ ELSE Raw(fields.password),
       !.role = IF fields.role = Undefined THEN @ ELSE fields.role,
       !.departmentId = IF fields.departmentId = 0 THEN @ ELSE fields.departmentId]

\* PUT /admin/employee/:employeeName
UpdateEmployee(h, names, bodies) ==
    LET g == adminAuthMiddleware(h, now)
        route == "PUT /admin/employee/:employeeName"
    IN  /\ Quiet
        /\ IF ~g.next THEN Denied(route, h, g)
           ELSE \E employeeName \in names, body \in bodies :
                LET department == FindDepartment(body.departmentName)
                    i == FirstIndex("name", employeeName)
                    updateFields ==
                        [password |-> body.password, role |-> body.role,
                         departmentId |-> IF Truthy(body.departmentName)
                                          THEN department._id ELSE 0]
                IN  IF Truthy(body.departmentName) /\ department = Null
                    THEN Reply(route, h, g, 404, "Department not found")
                    ELSE IF i = 0
                    THEN Reply(route, h, g, 404, "Employee not found")
                    ELSE /\ employees' =
                               [employees EXCEPT ![i] = ApplyUpdate(@, updateFields)]
                         /\ Answer(route, h, g, 200, "Employee updated successfully")
                         /\ UNCHANGED <<departments, tasks, nextId>>

\* DELETE /admin/employee/:employeeName
DeleteEmployee(h, names) ==
    LET g == adminAuthMiddleware(h, now)
        route == "DELETE /admin/employee/:employeeName"
    IN  /\ Quiet
        /\ IF ~g.next THEN Denied(route, h, g)
           ELSE \E employeeName \in names :
                LET i == FirstIndex("name", employeeName) IN
                IF i = 0
                THEN Reply(route, h, g, 404, "Employee not found")
                ELSE /\ employees' = RemoveAt(employees, i)
                     /\ Answer(route, h, g, 200, "Employee deleted successfully")
                     /\ UNCHANGED <<departments, tasks, nextId>>

(* ---- department routes: tasks (Routes/departmentRoute) ---- *)

\* taskSchema: title and description are required, status is one of the enum
StatusEnum == {"pending", "in-progress", "completed"}
ValidTask(t) ==
    /\ t.title # Undefined
    /\ t.description # Undefined
    /\ t.status \in StatusEnum

\* Variant of the POST task handler that leaves dueDate to the schema, whose
\* default is Date.now.
CreateTask_SchemaDueDate(h, names, bodies) ==
    LET g == jwtAuthMiddleware(h, now)
        route == "POST /department/:departmentName/task"
        dueDate == now
    IN  /\ nextId <= MaxDocs
        /\ UNCHANGED <<now, ticks, tokens>>
        /\ IF ~g.next THEN Denied(route, h, g) /\ out' = NoOut
           ELSE \E departmentName \in names, body \in bodies :
                LET department == FindDepartment(departmentName)
                    selectedEmployee == selectEmployee(department._id, employees, tasks)
                    task == [_id |-> nextId, title |-> body.title,
                             description |-> body.description,
                             departmentId |-> department._id,
                             assignedTo |-> selectedEmployee._id,
                             status |-> "pending", dueDate |-> dueDate]
                IN  IF department = Null
                    THEN Reply(route, h, g, 404, "Department not found") /\ out' = NoOut
                    ELSE /\ out' = [fn |-> "selectEmployee",
                                    departmentId |-> department._id,
                                    selected |-> selectedEmployee]
                         /\ IF selectedEmployee = Null
                            THEN Reply(route, h, g, 500, "Unable to assign task")
                            ELSE IF ~ValidTask(task)
                            THEN Reply(route, h, g, 500, "Task validation failed")
                            ELSE /\ tasks' = tasks \cup {task}
                                 /\ nextId' = nextId + 1
                                 /\ Answer(route, h, g, 201, "")
                                 /\ UNCHANGED <<departments, employees>>

\* POST /department/:departmentName/task
CreateTask(h, names, bodies) ==
    LET g == jwtAuthMiddleware(h, now)
        route == "POST /department/:departmentName/task"
        dueDate == now + DueDays * MsPerDay
    IN  /\ nextId <= MaxDocs
        /\ UNCHANGED <<now, ticks, tokens>>
        /\ IF ~g.next THEN Denied(route, h, g) /\ out' = NoOut
           ELSE \E departmentName \in names, body \in bodies :
                LET department == FindDepartment(departmentName)
                    selectedEmployee == selectEmployee(department._id, employees, tasks)
                    task == [_id |-> nextId, title |-> body.title,
                             description |-> body.description,
                             departmentId |-> department._id,
                             assignedTo |-> selectedEmployee._id,
                             status |-> "pending", dueDate |-> dueDate]
                IN  IF department = Null
                    THEN Reply(route, h, g, 404, "Department not found") /\ out' = NoOut
                    ELSE /\ out' = [fn |-> "selectEmployee",
                                    departmentId |-> department._id,
                                    selected |-> selectedEmployee]
                         /\ IF selectedEmployee = Null
                            THEN Reply(route, h, g, 500, "Unable to assign task")
                            ELSE IF ~ValidTask(task)
                            THEN Reply(route, h, g, 500, "Task validation failed")
                            ELSE /\ tasks' = tasks \cup {task}
                                 /\ nextId' = nextId + 1
                                 /\ Answer(route, h, g, 201, "")
                                 /\ UNCHANGED <<departments, employees>>

\* Task.findOne({ _id, departmentId })
FindTask(taskId, departmentId) ==
    IF \E t \in tasks : t._id = taskId /\ t.departmentId = departmentId
    THEN CHOOSE t \in tasks : t._id = taskId /\ t.departmentId = departmentId
    ELSE Null

\* Variant of Assign that copies the four fields of the body whether or not
\* the request carried them.
Assign_Overwrite(task, body) ==
    [task EXCEPT
       !.title = body.title,
       !.description = body.description,
       !.status = body.status,
       !.dueDate = body.dueDate]

\* The assignments of the update handler: a field is written when the body's
\* value is truthy (a dueDate of 0 stands for an absent one).
Assign(task, body) ==
    [task EXCEPT
       !.title = IF Truthy(body.title) THEN body.title ELSE @,
       !.description = IF Truthy(body.description) THEN body.description ELSE @,
       !.status = IF Truthy(body.status) THEN body.status ELSE @,
       !.dueDate = IF body.dueDate # 0 THEN body.dueDate ELSE @]

\* The task ids a client may name: those stored, and one that is not.
TaskIds == {t._id : t \in tasks} \cup {0}

\* PUT /department/:departmentName/task/:taskId
UpdateTask(h, names, bodies) ==
    LET g == jwtAuthMiddleware(h, now)
        route == "PUT /department/:departmentName/task/:taskId"
    IN  /\ Quiet
        /\ IF ~g.next THEN Denied(route, h, g)
           ELSE \E departmentName \in names, taskId \in TaskIds, body \in bodies :
                LET department == FindDepartment(departmentName)
                    task == FindTask(taskId, department._id)
                IN  IF department = Null
                    THEN Reply(route, h, g, 500, "Department not found")
                    ELSE IF task = Null
                    THEN Reply(route, h, g, 404, "Task not found in this department")
                    ELSE IF ~ValidTask(Assign(task, body))
                    THEN Reply(route, h, g, 500, "Task validation failed")
                    ELSE /\ tasks' = (tasks \ {task}) \cup {Assign(task, body)}
                         /\ Answer(route, h, g, 200, "")
                         /\ UNCHANGED <<departments, employees, nextId>>

\* DELETE /department/:departmentName/task/:taskId
DeleteTask(h, names) ==
    LET g == adminAuthMiddleware(h, now)
        route == "DELETE /department/:departmentName/task/:taskId"
    IN  /\ Quiet
        /\ IF ~g.next THEN Denied(route, h, g)
           ELSE \E departmentName \in names, taskId \in TaskIds :
                LET department == FindDepartment(departmentName)
                    task == FindTask(taskId, department._id)
                IN  IF department = Null
                    THEN Reply(route, h, g, 500, "Department not found")
                    ELSE IF task = Null
                    THEN Reply(route, h, g, 404, "Task not found in this department")
                    ELSE /\ tasks' = tasks \ {task}
                         /\ Answer(route, h, g, 200, "Task deleted successfully")
                         /\ UNCHANGED <<departments, employees, nextId>>

(* ---- read routes ---- *)

\* GET /department/:departmentName/task (admin only)
ListTasks(h, names) ==
    LET g == adminAuthMiddleware(h, now)
        route == "GET /department/:departmentName/task"
    IN  /\ Quiet
        /\ IF ~g.next THEN Denied(route, h, g)
           ELSE \E departmentName \in names :
                LET department == FindDepartment(departmentName) IN
                IF department = Null
                THEN Reply(route, h, g, 500, "Department not found")
                ELSE IF \A t \in tasks : t.departmentId # department._id
                THEN Reply(route, h, g, 404, "No tasks found in this department")
                ELSE Reply(route, h, g, 200, "")

\* GET /department/:departmentName/task/:taskId (any authenticated user)
GetTask(h, names) ==
    LET g == jwtAuthMiddleware(h, now)
        route == "GET /department/:departmentName/task/:taskId"
    IN  /\ Quiet
        /\ IF ~g.next THEN Denied(route, h, g)
           ELSE \E departmentName \in names, taskId \in TaskIds :
                LET department == FindDepartment(departmentName) IN
                IF department = Null
                THEN Reply(route, h, g, 500, "Department not found")
                ELSE IF FindTask(taskId, department._id) = Null
                THEN Reply(route, h, g, 404, "Task not found in this department")
                ELSE Reply(route, h, g, 200, "")

(* ---- authentication routes (Routes/auth) ---- *)

\* POST /auth/login: no gate
Login(emails, passwords) ==
    LET route == "POST /auth/login" IN
    /\ out' = NoOut
    /\ UNCHANGED <<store, nextId, now, ticks, calls>>
    /\ req' = [NoReq EXCEPT !.route = route, !.at = now]
    /\ \E email \in emails, password \in passwords :
       LET i == FirstIndex("email", email)
           person == employees[i]
           isAdmin == Get(person, "isAdmin")
           token == generateToken([userId |-> ObjectId(person._id),
                                   email |-> person.email,
                                   isAdmin |-> IF Truthy(isAdmin) THEN isAdmin ELSE "false"],
                                  now)
       IN  IF i = 0
           THEN /\ res' = [status |-> 404, message |-> "Invalid email id"]
                /\ tokens' = tokens
           ELSE IF ~comparePassword(person.password, password)
           THEN /\ res' = [status |-> 404, message |-> "Invalid username or password"]
                /\ tokens' = tokens
           ELSE /\ token \in tokens \/ Cardinality(tokens) < MaxTokens
                /\ res' = [status |-> 200, message |-> "token"]
                /\ tokens' = tokens \cup {token}

\* POST /auth/logout: no gate, nothing is recorded
Logout ==
    /\ req' = [NoReq EXCEPT !.route = "POST /auth/logout", !.at = now]
    /\ res' = [status |-> 200, message |-> "Logout successful"]
    /\ out' = NoOut
    /\ UNCHANGED <<store, nextId, now, ticks, tokens, calls>>

----------------------------------------------------------------------------
(* Spec: the department, employee and task routes on an initially empty    *)
(* database. Clients hold tokens signed with the secret: one with          *)
(* isAdmin: true and one with isAdmin: false issued at StartTime, and one  *)
(* issued an hour earlier, which has expired.                              *)

StartTime == ExpiresIn * MsPerSecond

OperatorToken ==
    generateToken([userId |-> HexString(0), email |-> "root", isAdmin |-> "true"], StartTime)
StaffToken ==
    generateToken([userId |-> HexString(0), email |-> "staff", isAdmin |-> "false"], StartTime)
StaleToken ==
    generateToken([userId |-> HexString(0), email |-> "root", isAdmin |-> "true"], 0)

\* The main specification is driven by the client holding the admin token.
AdminHeaders == {Bearer(OperatorToken)}

\* Every kind of header: none, no second segment, not a JWT, expired, valid.
RouteHeaders ==
    {NoHeader, Header(<<Word("Bearer")>>), Bearer(Garbage),
     Bearer(StaleToken), Bearer(OperatorToken), Bearer(StaffToken)}

DepartmentBodies == [name : DeptNames \cup {Undefined}]
EmployeeBodies ==
    {[name |-> n, email |-> n, password |-> "pw1", role |-> Undefined,
      departmentName |-> d] : n \in EmpNames, d \in DeptNames}
EmployeeUpdates ==
    [departmentName : DeptNames \cup {Undefined}, password : {Undefined}, role : {Undefined}]
TaskBodies == [title : {"t1"}, description : {"d1"}]
TaskUpdates ==
    [title : {Undefined}, description : {Undefined}, status : StatusEnum, dueDate : {0}]

Init ==
    /\ EmptyStore
    /\ now = StartTime /\ ticks = 0 /\ tokens = {}
    /\ req = NoReq /\ res = NoRes /\ out = NoOut /\ calls = NoCalls

Next ==
    \E h \in AdminHeaders :
        \/ CreateDepartment(h, DeptNames)
        \/ UpdateDepartment(h, DeptNames, DepartmentBodies)
        \/ DeleteDepartment(h, DeptNames)
        \/ CreateEmployee(h, EmployeeBodies)
        \/ UpdateEmployee(h, EmpNames, EmployeeUpdates)
        \/ DeleteEmployee(h, EmpNames)
        \/ CreateTask(h, DeptNames, TaskBodies)
        \/ UpdateTask(h, DeptNames, TaskUpdates)
        \/ DeleteTask(h, DeptNames)

Spec == Init /\ [][Next]_vars

----------------------------------------------------------------------------
(* A database holding one department, one employee with role admin and one *)
(* task: what the routes above leave after three creations.                *)

Seeded ==
    /\ departments = {[_id |-> 1, name |-> "Eng"]}
    /\ employees = <<[_id |-> 2, name |-> "ann", email |-> "ann",
                      password |-> Hashed("pw1"), role |-> "admin",
                      departmentId |-> 1]>>
    /\ tasks = {[_id |-> 3, title |-> "t1", description |-> "d1", departmentId |-> 1,
                 assignedTo |-> 2, status |-> "pending",
                 dueDate |-> StartTime + DueDays * MsPerDay]}
    /\ nextId = 4

----------------------------------------------------------------------------
(* SpecDeny: every route, reached with every kind of Authorization header. *)

DenyTaskBodies == [title : {"t1", Undefined}, description : {"d1"}]
DenyTaskUpdates ==
    [title : {Undefined}, description : {Undefined},
     status : {"completed", "archived"}, dueDate : {0}]
    \cup {[title |-> "t2", description |-> Undefined, status |-> Undefined, dueDate |-> 0]}

InitDeny ==
    /\ Seeded
    /\ now = StartTime /\ ticks = 0 /\ tokens = {}
    /\ req = NoReq /\ res = NoRes /\ out = NoOut /\ calls = NoCalls

NextDeny ==
    \E h \in RouteHeaders :
        \/ CreateDepartment(h, {"Ops"})
        \/ UpdateDepartment(h, {"Eng"}, [name : {"Ops"}])
        \/ DeleteDepartment(h, {"Eng"})
        \/ CreateEmployee(h, {b \in EmployeeBodies : b.name = "bob"})
        \/ UpdateEmployee(h, {"ann"}, {u \in EmployeeUpdates : u.departmentName = "Ops"})
        \/ DeleteEmployee(h, {"ann"})
        \/ CreateTask(h, {"Eng"}, DenyTaskBodies)
        \/ UpdateTask(h, {"Eng"}, DenyTaskUpdates)
        \/ DeleteTask(h, {"Eng"})
        \/ ListTasks(h, {"Eng"})
        \/ GetTask(h, {"Eng"})

SpecDeny == InitDeny /\ [][NextDeny]_vars

----------------------------------------------------------------------------
(* SpecAuth: login and logout, the clock, the admin routes that change or  *)
(* remove the employee, and requests presenting the tokens login issued.   *)

AuthHeaders == {Bearer(OperatorToken)} \cup {Bearer(tok) : tok \in tokens}
AuthUpdates ==
    [departmentName : {Undefined}, password : {Undefined, "pw2"},
     role : {Undefined, "employee"}]

InitAuth ==
    /\ Seeded
    /\ now = StartTime /\ ticks = 0 /\ tokens = {}
    /\ req = NoReq /\ res = NoRes /\ out = NoOut /\ calls = NoCalls

NextAuth ==
    \/ Login({"ann", "bob"}, {"pw1", "pw2"})
    \/ Logout
    \/ \E d \in ClockSteps : Tick(d)
    \/ \E h \in AuthHeaders :
        \/ UpdateEmployee(h, {"ann"}, AuthUpdates)
        \/ DeleteEmployee(h, {"ann"})
        \/ ListTasks(h, {"Eng"})
        \/ GetTask(h, {"Eng"})

SpecAuth == InitAuth /\ [][NextAuth]_vars

----------------------------------------------------------------------------
(* SpecSelect: selectEmployee applied to rosters and task loads drawn from *)
(* bounded sets.                                                           *)

MaxRoster == 3     \* employees in the collection
MaxOpen == 1       \* pending or in-progress tasks per employee
MaxDone == 2       \* completed tasks per employee

SelDepts == {1, 2}

Employee(id, name, dept) ==
    [_id |-> id, name |-> name, email |-> name,
     password |-> [hashed |-> TRUE, of |-> "pw"], role |-> "employee",
     departmentId |-> dept]

\* k open tasks (alternately pending and in-progress) and c completed ones
\* assigned to employee e; task ids are unique over the collection.
TasksFor(e, dept, k, c) ==
    {[_id |-> 100 * e + j, title |-> "t", description |-> "d",
      departmentId |-> dept, assignedTo |-> e,
      status |-> IF j > k THEN "completed"
                 ELSE IF j % 2 = 1 THEN "pending" ELSE "in-progress",
      dueDate |-> 0] : j \in 1..(k + c)}

\* What is drawn for one employee: <<department, open tasks, completed tasks>>.
\* The department asked for is 1; employees of department 2 carry no task, so
\* that they are the lightest of the whole collection.
Draws ==
    {<<1, k, c>> : k \in 0..MaxOpen, c \in 0..MaxDone} \cup {<<2, 0, 0>>}

InitSelect ==
    /\ \E n \in 0..MaxRoster :
       \E draw \in [1..n -> Draws] :
          /\ employees = [i \in 1..n |-> Employee(i, "e", draw[i][1])]
          /\ tasks = UNION {TasksFor(i, draw[i][1], draw[i][2], draw[i][3]) : i \in 1..n}
    /\ departments = {[_id |-> d, name |-> "d"] : d \in SelDepts}
    /\ nextId = 1
    /\ now = 0 /\ ticks = 0 /\ tokens = {}
    /\ req = NoReq /\ res = NoRes /\ out = NoOut /\ calls = NoCalls

Select(departmentId) ==
    /\ out' = [fn |-> "selectEmployee", departmentId |-> departmentId,
               selected |-> selectEmployee(departmentId, employees, tasks)]
    /\ UNCHANGED <<store, nextId, now, ticks, tokens, req, res, calls>>

NextSelect == \E d \in SelDepts : Select(d)

SpecSelect == InitSelect /\ [][NextSelect]_vars

----------------------------------------------------------------------------
(* Properties of the selector (SpecSelect) *)

Selected == out.fn = "selectEmployee"
\* Positions, in query order, of the department's employees
Roster == EmployeesOf(out.departmentId, employees)
MinTotal == CHOOSE m \in {TotalTasks(Roster[i], tasks) : i \in 1..Len(Roster)} :
               \A i \in 1..Len(Roster) : m <= TotalTasks(Roster[i], tasks)
Lightest == {i \in 1..Len(Roster) : TotalTasks(Roster[i], tasks) = MinTotal}
MinPending == CHOOSE m \in {PendingTasks(Roster[i], tasks) : i \in Lightest} :
                 \A i \in Lightest : m <= PendingTasks(Roster[i], tasks)
Candidates == {i \in Lightest : PendingTasks(Roster[i], tasks) = MinPending}

\* C1: for a department with at least one employee the selected employee
\* belongs to the department, has the minimum totalTasks of the department,
\* and the minimum pendingTasks among those with that totalTasks; an employee
\* with more total tasks than another is never selected.
C1_LeastLoaded ==
    (Selected /\ Len(Roster) > 0)
    => /\ out.selected # Null
       /\ \E i \in 1..Len(Roster) : Roster[i] = out.selected
       /\ out.selected.departmentId = out.departmentId
       /\ TotalTasks(out.selected, tasks) = MinTotal
       /\ PendingTasks(out.selected, tasks) = MinPending
       /\ \A i \in 1..Len(Roster) :
             TotalTasks(Roster[i], tasks) >= TotalTasks(out.selected, tasks)

\* The selected employee is not the first of the roster, and another one
\* with more total tasks has fewer open tasks: it is not selected.
C1_Witness ==
    /\ Selected /\ Len(Roster) >= 2
    /\ Roster[1] # out.selected
    /\ \E i \in 1..Len(Roster) :
          /\ TotalTasks(Roster[i], tasks) > TotalTasks(out.selected, tasks)
          /\ PendingTasks(Roster[i], tasks) < PendingTasks(out.selected, tasks)

\* C2: among the employees sharing the minimum totalTasks and pendingTasks the
\* first in the order of the query result is selected.
C2_FirstWins ==
    (Selected /\ Len(Roster) > 0)
    => \E i \in Candidates :
          /\ Roster[i] = out.selected
          /\ \A j \in Candidates : i <= j

C2_Witness ==
    /\ Selected
    /\ Cardinality(Candidates) >= 2
    /\ \E i \in Candidates : i > 1 /\ Roster[i] = out.selected
    /\ \E j \in Candidates : Roster[j] # out.selected

----------------------------------------------------------------------------
(* Properties of the routes *)

CreateTaskRoute == "POST /department/:departmentName/task"
JwtRoutes ==
    {CreateTaskRoute, "PUT /department/:departmentName/task/:taskId",
     "GET /department/:departmentName/task/:taskId"}
Ungated == {"none", "gate", "POST /auth/login", "POST /auth/logout"}

\* C3: a task creation for a department without employees gets null from
\* selectEmployee, is answered 500, and leaves the Task collection as it was.
C3_Step ==
    (out'.fn = "selectEmployee" /\ Len(EmployeesOf(out'.departmentId, employees)) = 0)
    => /\ req'.route = CreateTaskRoute
       /\ out'.selected = Null
       /\ res'.status = 500
       /\ tasks' = tasks
C3_NoEmployeeNoTask == [][C3_Step]_vars

C3_Witness ==
    /\ req.route = CreateTaskRoute /\ req.next
    /\ out.fn = "selectEmployee" /\ out.selected = Null
    /\ \E d \in departments : d._id = out.departmentId
    /\ res.status = 500
    /\ Len(employees) > 0

\* C4: every stored task's departmentId is the departmentId of the employee
\* its assignedTo refers to.
C4_TaskDeptMatchesAssignee ==
    \A t \in tasks :
       \E i \in 1..Len(employees) :
          /\ employees[i]._id = t.assignedTo
          /\ employees[i].departmentId = t.departmentId

\* No token, no second segment, a token that is no JWT or is signed with
\* another key, or an expired token.
Unauthenticated(h, t) ==
    LET tok == SplitSecond(h) IN
    \/ ~h.present
    \/ TokenFalsy(tok)
    \/ tok.kind # "jwt"
    \/ tok.key # Secret
    \/ Sec(t) >= tok.payload.exp

\* C7: a request to a gated route that carries no valid token is answered by
\* the gate: next() is not called, req.user is not set and the three
\* collections are unchanged.
C7_Step ==
    (req'.route \notin Ungated /\ Unauthenticated(req'.header, req'.at))
    => /\ ~req'.next
       /\ req'.user = NoUser
       /\ res'.status \in {400, 401}
       /\ departments' = departments
       /\ employees' = employees
       /\ tasks' = tasks
C7_DeniedBeforeHandler == [][C7_Step]_vars

C7_Witness ==
    /\ req.route = "DELETE /department/:departmentName/task/:taskId"
    /\ req.header = Bearer(StaleToken)
    /\ ~req.next /\ req.user = NoUser
    /\ tasks # {}
    /\ Len(employees) = 2

----------------------------------------------------------------------------
(* SpecCreate: task creations, one request at a time, in a department with *)
(* a fixed roster, while the clock advances and tasks get completed. The   *)
(* department and employee documents were inserted before the run; their   *)
(* ids lie above every id handed out during it.                            *)

EngId == 101
OpsId == 102
OutsiderId == 103
RosterId(i) == OutsiderId + i
RosterNames == <<"ann", "bob", "cat", "dan", "eve", "fay">>

CompleteOnly ==
    {[title |-> Undefined, description |-> Undefined, status |-> "completed", dueDate |-> 0]}

InitCreate ==
    /\ departments = {[_id |-> EngId, name |-> "Eng"], [_id |-> OpsId, name |-> "Ops"]}
    /\ \E n \in 1..MaxRoster :
          employees = [i \in 1..n |-> Employee(RosterId(i), RosterNames[i], EngId)]
                      \o <<Employee(OutsiderId, "zed", OpsId)>>
    /\ tasks = {}
    /\ nextId = 1
    /\ now = StartTime /\ ticks = 0 /\ tokens = {}
    /\ req = NoReq /\ res = NoRes /\ out = NoOut /\ calls = NoCalls

NextCreate ==
    \/ \E d \in ClockSteps : Tick(d)
    \/ CreateTask(Bearer(StaffToken), {"Eng"}, TaskBodies)
    \/ UpdateTask(Bearer(StaffToken), {"Eng"}, CompleteOnly)

SpecCreate == InitCreate /\ [][NextCreate]_vars

\* C12: a successful task creation in department Eng stores one new task
\* whose departmentId is the id of Eng, whose assignedTo is the employee
\* selectEmployee returns for Eng on the collections as they were, and whose
\* dueDate is exactly 7 days after the time of the request.
C12_Step ==
    (req'.route = CreateTaskRoute /\ tasks' # tasks)
    => \E t \in tasks' :
          /\ t \notin tasks
          /\ tasks' = tasks \cup {t}
          /\ res'.status = 201
          /\ req'.at = now
          /\ t.departmentId = FindDepartment("Eng")._id
          /\ out'.selected = selectEmployee(t.departmentId, employees, tasks)
          /\ t.assignedTo = out'.selected._id
          /\ \E i \in 1..Len(employees) :
                /\ employees[i]._id = t.assignedTo
                /\ employees[i].departmentId = t.departmentId
          /\ t.dueDate = now + DueDays * MsPerDay
          /\ t.status = "pending"
C12_CreatedTaskFields == [][C12_Step]_vars

\* A task created after the clock has moved, assigned to an employee who is
\* not the first of the department's roster.
C12_Witness ==
    /\ req.route = CreateTaskRoute /\ res.status = 201
    /\ req.at > StartTime
    /\ \E t \in tasks :
          /\ t._id = nextId - 1
          /\ t.dueDate = req.at + DueDays * MsPerDay
          /\ t.assignedTo # employees[1]._id
          /\ t.assignedTo = out.selected._id

----------------------------------------------------------------------------
(* SpecRace: POST task handlers running concurrently. Every await of the   *)
(* handler and of selectEmployee is a point where another handler may run: *)
(* a call advances by one database operation at a time.                    *)

MaxCalls == 2      \* POST task requests received

SeedTaskId == 201

Ids(tsks) == {t._id : t \in tsks}

\* The local variables of one call of the handler. seen, readEnd and atSave
\* record which tasks the collection held when the call started, when its
\* selection loop ended and just before it saved.
NewCall(body, department, dueDate) ==
    [pc |-> "find", title |-> body.title, description |-> body.description,
     department |-> department, dueDate |-> dueDate,
     found |-> << >>, i |-> 0, totalTasks |-> 0,
     st |-> [selectedEmployee |-> Null, minTaskCount |-> Infinity,
             minPendingTasks |-> Infinity],
     seen |-> Ids(tasks), readEnd |-> {}, atSave |-> {},
     task |-> 0, assignedTo |-> 0, status |-> 0]

\* jwtAuthMiddleware, then the handler up to findDepartmentByName
BeginCreate(h, names, bodies) ==
    LET g == jwtAuthMiddleware(h, now)
        route == "POST /department/:departmentName/task"
        dueDate == now + DueDays * MsPerDay
    IN  /\ Len(calls) < MaxCalls
        /\ req' = [route |-> route, header |-> h, at |-> now,
                   user |-> g.user, next |-> g.next]
        /\ out' = NoOut
        /\ UNCHANGED <<store, nextId, now, ticks, tokens>>
        /\ IF ~g.next
           THEN /\ res' = [status |-> g.status, message |-> g.message]
                /\ calls' = calls
           ELSE \E departmentName \in names, body \in bodies :
                LET department == FindDepartment(departmentName) IN
                IF department = Null
                THEN /\ res' = [status |-> 404, message |-> "Department not found"]
                     /\ calls' = calls
                ELSE /\ calls' = Append(calls, NewCall(body, department, dueDate))
                     /\ res' = res

\* selectEmployee: Employee.find({ departmentId }) and the empty case
FindEmployees(c) ==
    LET call == calls[c]
        found == EmployeesOf(call.department._id, employees)
    IN  /\ call.pc = "find"
        /\ UNCHANGED <<store, nextId, now, ticks, tokens, req, out>>
        /\ IF Len(found) = 0
           THEN /\ calls' = [calls EXCEPT ![c].pc = "done", ![c].status = 500,
                                          ![c].readEnd = Ids(tasks)]
                /\ res' = [status |-> 500, message |-> "Unable to assign task"]
           ELSE /\ calls' = [calls EXCEPT ![c].pc = "total", ![c].found = found,
                                          ![c].i = 1]
                /\ res' = res

\* selectEmployee: Task.countDocuments({ assignedTo })
CountTotal(c) ==
    LET call == calls[c] IN
    /\ call.pc = "total"
    /\ calls' = [calls EXCEPT ![c].pc = "pending",
                              ![c].totalTasks = TotalTasks(call.found[call.i], tasks)]
    /\ UNCHANGED <<store, nextId, now, ticks, tokens, req, res, out>>

\* selectEmployee: the second countDocuments, the test and the loop's advance
CountPending(c) ==
    LET call == calls[c]
        employee == call.found[call.i]
        pendingTasks == PendingTasks(employee, tasks)
        last == call.i = Len(call.found)
    IN  /\ call.pc = "pending"
        /\ calls' = [calls EXCEPT
              ![c].st = IF Better(call.totalTasks, pendingTasks, call.st)
                        THEN [selectedEmployee |-> employee,
                              minTaskCount |-> call.totalTasks,
                              minPendingTasks |-> pendingTasks]
                        ELSE @,
              ![c].i = @ + 1,
              ![c].pc = IF last THEN "save" ELSE "total",
              ![c].readEnd = IF last THEN Ids(tasks) ELSE @]
        /\ UNCHANGED <<store, nextId, now, ticks, tokens, req, res, out>>

\* The rest of the handler: new Task(...).save() and the response
SaveTask(c) ==
    LET call == calls[c]
        selectedEmployee == IF call.st.selectedEmployee = Null THEN call.found[1]
                            ELSE call.st.selectedEmployee
        task == [_id |-> nextId, title |-> call.title,
                 description |-> call.description,
                 departmentId |-> call.department._id,
                 assignedTo |-> selectedEmployee._id,
                 status |-> "pending", dueDate |-> call.dueDate]
    IN  /\ call.pc = "save"
        /\ nextId <= MaxDocs
        /\ UNCHANGED <<departments, employees, now, ticks, tokens, req, out>>
        /\ IF ~ValidTask(task)
           THEN /\ calls' = [calls EXCEPT ![c].pc = "done", ![c].status = 500,
                                          ![c].atSave = Ids(tasks)]
                /\ res' = [status |-> 500, message |-> "Task validation failed"]
                /\ UNCHANGED <<tasks, nextId>>
           ELSE /\ tasks' = tasks \cup {task}
                /\ nextId' = nextId + 1
                /\ calls' = [calls EXCEPT ![c].pc = "done", ![c].status = 201,
                                          ![c].atSave = Ids(tasks),
                                          ![c].task = task._id,
                                          ![c].assignedTo = task.assignedTo]
                /\ res' = [status |-> 201, message |-> ""]

\* The database before the requests: Eng with two or more employees, Ops
\* with one, and either no task or one completed task of Eng's first employee.
SeedTasks ==
    {{}, {[_id |-> SeedTaskId, title |-> "t0", description |-> "d0",
           departmentId |-> EngId, assignedTo |-> RosterId(1),
           status |-> "completed", dueDate |-> 0]}}

InitRace ==
    /\ departments = {[_id |-> EngId, name |-> "Eng"], [_id |-> OpsId, name |-> "Ops"]}
    /\ \E n \in 2..MaxRoster :
          employees = [i \in 1..n |-> Employee(RosterId(i), RosterNames[i], EngId)]
                      \o <<Employee(OutsiderId, "zed", OpsId)>>
    /\ tasks \in SeedTasks
    /\ nextId = 1
    /\ now = StartTime /\ ticks = 0 /\ tokens = {}
    /\ req = NoReq /\ res = NoRes /\ out = NoOut /\ calls = NoCalls

NextRace ==
    \/ BeginCreate(Bearer(StaffToken), {"Eng"}, TaskBodies)
    \/ \E c \in 1..Len(calls) :
        \/ FindEmployees(c)
        \/ CountTotal(c)
        \/ CountPending(c)
        \/ SaveTask(c)

SpecRace == InitRace /\ [][NextRace]_vars

\* The call stored a task.
Saved(c) == calls[c].pc = "done" /\ calls[c].status = 201
\* No task was stored while the call was counting.
Undisturbed(c) == calls[c].readEnd = calls[c].seen
\* No task was stored between the call's start and its save.
Alone(c) == Undisturbed(c) /\ calls[c].atSave = calls[c].seen
\* The tasks the call saw when it started.
Snapshot(c) == {t \in tasks : t._id \in calls[c].seen}
Load(e, tsks) == Cardinality({t \in tsks : t.assignedTo = e._id})
OpenLoad(e, tsks) ==
    Cardinality({t \in tsks : t.assignedTo = e._id /\ t.status # "completed"})
\* Another employee of the department had, on what the call saw, the same
\* counts as the employee the call assigned its task to.
TiedAt(c) ==
    \E i, j \in 1..Len(calls[c].found) :
       LET e == calls[c].found[i]
           f == calls[c].found[j]
       IN  /\ i # j
           /\ e._id = calls[c].assignedTo
           /\ Load(e, Snapshot(c)) = Load(f, Snapshot(c))
           /\ OpenLoad(e, Snapshot(c)) = OpenLoad(f, Snapshot(c))

\* C13: two creation requests for the same department that both count on
\* the same tasks (neither sees the other's task) assign to the same
\* employee; of two that run one after the other with nothing in between,
\* the second, when the first's employee was tied with another, assigns to a
\* different employee.
C13_RaceAndSequence ==
    \A a, b \in 1..Len(calls) :
       (a # b /\ Saved(a) /\ Saved(b)
        /\ calls[a].department._id = calls[b].department._id)
       => /\ (Undisturbed(a) /\ Undisturbed(b) /\ calls[a].seen = calls[b].seen)
             => calls[a].assignedTo = calls[b].assignedTo
          /\ (/\ Alone(a) /\ Alone(b)
              /\ calls[b].seen = calls[a].seen \cup {calls[a].task}
              /\ TiedAt(a))
             => calls[b].assignedTo # calls[a].assignedTo

\* The race happened: both calls counted before either saved, both tasks
\* went to the same employee, and another employee had the same counts.
C13_Witness ==
    \E a, b \in 1..Len(calls) :
       /\ a # b /\ Saved(a) /\ Saved(b)
       /\ Undisturbed(a) /\ Undisturbed(b)
       /\ calls[a].seen = calls[b].seen
       /\ calls[a].task \notin calls[b].readEnd
       /\ calls[b].task \notin calls[a].readEnd
       /\ calls[a].assignedTo = calls[b].assignedTo
       /\ TiedAt(a)
       /\ Cardinality({t \in tasks : t.assignedTo = calls[a].assignedTo
                                     /\ t._id \in {calls[a].task, calls[b].task}}) = 2

----------------------------------------------------------------------------
(* SpecUpdate: PUT task requests with every combination of body fields on  *)
(* a department holding a completed and a pending task.                    *)

UpdateRoute == "PUT /department/:departmentName/task/:taskId"
NewDueDate == StartTime + MsPerDay

UpdateBodies ==
    [title : {Undefined, "t2"}, description : {Undefined, "d2"},
     status : StatusEnum \cup {Undefined, "archived"}, dueDate : {0, NewDueDate}]

InitUpdate ==
    /\ departments = {[_id |-> EngId, name |-> "Eng"], [_id |-> OpsId, name |-> "Ops"]}
    /\ employees = <<Employee(RosterId(1), "ann", EngId), Employee(RosterId(2), "bob", EngId)>>
    /\ tasks = {[_id |-> 1, title |-> "t1", description |-> "d1", departmentId |-> EngId,
                 assignedTo |-> RosterId(1), status |-> "completed",
                 dueDate |-> StartTime],
                [_id |-> 2, title |-> "t1", description |-> "d1", departmentId |-> EngId,
                 assignedTo |-> RosterId(2), status |-> "pending",
                 dueDate |-> StartTime]}
    /\ nextId = 3
    /\ now = StartTime /\ ticks = 0 /\ tokens = {}
    /\ req = NoReq /\ res = NoRes /\ out = NoOut /\ calls = NoCalls

NextUpdate ==
    \/ UpdateTask(Bearer(StaffToken), {"Eng"}, UpdateBodies)
    \/ \E h \in {Bearer(StaffToken), Bearer(StaleToken)} : GetTask(h, DeptNames)

SpecUpdate == InitUpdate /\ [][NextUpdate]_vars

\* What the handler makes of a stored task for a body: only the fields the
\* body carries differ, and a status of the enum is taken and passes
\* validation whatever the status was.
UpdatesOnlySupplied ==
    \A t \in tasks, body \in UpdateBodies :
       LET u == Assign(t, body) IN
       /\ body.title = Undefined => u.title = t.title
       /\ body.description = Undefined => u.description = t.description
       /\ body.status = Undefined => u.status = t.status
       /\ body.dueDate = 0 => u.dueDate = t.dueDate
       /\ u._id = t._id
       /\ u.assignedTo = t.assignedTo
       /\ u.departmentId = t.departmentId
       /\ body.status \in StatusEnum => (u.status = body.status /\ ValidTask(u))

\* C14: an update may set any status of the enum from any status, changes
\* only the fields of title, description, status and dueDate that the body
\* supplies, and changes neither assignedTo nor departmentId nor any other
\* task.
C14_Step ==
    (req'.route = UpdateRoute /\ tasks' # tasks)
    => /\ UpdatesOnlySupplied
       /\ res'.status = 200
       /\ \E t \in tasks \ tasks', u \in tasks' \ tasks :
             /\ tasks' = (tasks \ {t}) \cup {u}
             /\ \E body \in UpdateBodies : u = Assign(t, body)
             /\ u._id = t._id
             /\ u.assignedTo = t.assignedTo
             /\ u.departmentId = t.departmentId
             /\ u.status \in StatusEnum
C14_UpdateFrame == [][C14_Step]_vars

\* The task that was completed is pending again and carries a new title,
\* while its description, due date and assignee are the original ones and
\* the other task has been given a new due date.
C14_Witness ==
    /\ req.route = UpdateRoute /\ res.status = 200
    /\ \E t, o \in tasks :
          /\ t._id = 1 /\ t.status = "pending" /\ t.title = "t2"
          /\ t.description = "d1" /\ t.dueDate = StartTime
          /\ t.assignedTo = RosterId(1)
          /\ o._id = 2 /\ o.dueDate = NewDueDate /\ o.assignedTo = RosterId(2)

\* C11: the password stored in every employee record is a hash, never the
\* plaintext a create or an update request submitted.
C11_PasswordsHashed ==
    \A i \in 1..Len(employees) : employees[i].password.hashed

\* C15: the isAdmin claim of the token a successful login issues is true
\* exactly when the employee who logged in has role admin.
C15_AdminClaimIffRole ==
    (req.route = "POST /auth/login" /\ res.status = 200)
    => \A tok \in tokens :
          tok.issuedAt = req.at
          => \E i \in 1..Len(employees) :
                /\ employees[i].email = tok.claims.email
                /\ tok.claims.isAdmin = "true" <=> employees[i].role = "admin"

\* The employees of Eng and the number of stored tasks assigned to each.
EngRoster == EmployeesOf(EngId, employees)
Assigned(e) == Cardinality({t \in tasks : t.assignedTo = e._id})

\* C16: with a fixed roster and no task at the start, after any number of
\* task creations made one at a time the numbers of tasks of any two
\* employees of the department differ by at most 1.
C16_Balanced ==
    \A i, j \in 1..Len(EngRoster) :
       Assigned(EngRoster[i]) - Assigned(EngRoster[j]) <= 1

\* Four tasks over three employees, some of them completed meanwhile: the
\* first employee has two, the others one each.
C16_Witness ==
    /\ Len(EngRoster) = 3
    /\ Cardinality(tasks) = 4
    /\ Assigned(EngRoster[1]) = 2
    /\ Assigned(EngRoster[2]) = 1
    /\ Assigned(EngRoster[3]) = 1
    /\ \E t \in tasks : t.status = "completed"

====
